---- MODULE Spec2Model ----
(***************************************************************************)
(* A model of pygount/analysis.py: encoding_for, the generator chain       *)
(* _delined_tokens -> _pythonized_comments -> _line_parts, and             *)
(* source_analysis, which reduces every yielded set of line marks to one   *)
(* counter.  The pygments lexer, the file system and the codecs are the    *)
(* environment: the lexer yields tokens nondeterministically, a file is    *)
(* missing, unreadable or a sequence of bytes.                             *)
(***************************************************************************)
EXTENDS Integers, Sequences, FiniteSets, TLC

\* Raw tokens the lexer yields for one file.
MaxTokens == 4

VARIABLES
    pc,              \* position inside source_analysis
    lexer,           \* lexers.get_lexer_for_filename(source_path): a name, or "None"
    file,            \* the file at source_path: "missing", "denied" or its bytes
    mode,            \* the encoding argument of source_analysis
    fallback,        \* the fallback_encoding argument
    encoding,        \* the local variable encoding handed to open()
    result,          \* the SourceAnalysis returned, or "None"
    ntok,            \* tokens pulled from lexer.get_tokens() so far
    exhausted,       \* lexer.get_tokens() has ended
    pending,         \* _delined_tokens: token_type and the rest of token_text
    cur,             \* the token travelling down the generator chain
    is_after_colon,  \* _pythonized_comments' local
    line_marks,      \* _line_parts' local
    yielded,         \* the set _line_parts yielded to source_analysis
    counts,          \* mark_to_count_map
    emitted,         \* observer: how many sets _line_parts has yielded
    nl,              \* observer: "\n" characters in the text lexed so far
    tail,            \* observer: the lexed text ends in a partial line
    lastSig,         \* observer: the last code token: "start", "colon", "code", "unsure"
    ln,              \* observer: what the tokens of the current line are
    epc,             \* position inside encoding_for, when it is called on its own
    heading,         \* encoding_for's local heading
    eresult,         \* encoding_for's local result
    lines,           \* source_file.readlines() still to feed to the detector
    detector         \* chardet's UniversalDetector, _detector

vars == << pc, lexer, file, mode, fallback, encoding, result, ntok, exhausted,
           pending, cur, is_after_colon, line_marks, yielded, counts,
           emitted, nl, tail, lastSig, ln, epc, heading, eresult, lines, detector >>

\* The call's arguments and what they name.
args == << lexer, file, mode, fallback >>

\* What source_analysis and its generators hold.
saVars == << pc, encoding, result, ntok, exhausted, pending, cur,
             is_after_colon, line_marks, yielded, counts, emitted, nl, tail,
             lastSig, ln >>

\* What a direct call of encoding_for holds.
encVars == << epc, heading, eresult, lines, detector >>

-----------------------------------------------------------------------------
(* Strings are sequences of one-character strings.                         *)

RECURSIVE RStrip(_, _)
\* str.rstrip(chars)
RStrip(s, chars) ==
    IF s = << >> THEN s
    ELSE IF s[Len(s)] \in chars THEN RStrip(SubSeq(s, 1, Len(s) - 1), chars)
    ELSE s

RECURSIVE LStrip(_, _)
\* str.lstrip(chars)
LStrip(s, chars) ==
    IF s = << >> THEN s
    ELSE IF s[1] \in chars THEN LStrip(Tail(s), chars)
    ELSE s

\* The characters str.strip() removes, among those of the model's alphabet.
PyWhitespace == {" ", "\f", "\n", "\r", "\t"}

\* str.strip()
Strip(s) == LStrip(RStrip(s, PyWhitespace), PyWhitespace)

\* str.find("\n"), 1-based; 0 when there is none
FindNewline(s) ==
    IF \E i \in 1..Len(s) : s[i] = "\n"
    THEN CHOOSE i \in 1..Len(s) : s[i] = "\n" /\ \A j \in 1..(i - 1) : s[j] # "\n"
    ELSE 0

\* str.endswith("\n")
EndsWithNewline(s) == s # << >> /\ s[Len(s)] = "\n"

-----------------------------------------------------------------------------
(* pygments token types: `t in token.Comment` holds of Comment and of its  *)
(* subtypes.                                                               *)

TokenComment == "Comment"

InComment(t) == t \in {"Comment", "Comment.Single"}

InString(t) == t \in {"String", "String.Doc"}

TokenTypes == {"Comment.Single", "String.Doc", "Keyword"}

TokenTexts ==
    { << "\n" >>, << " " >>, << ":" >>, << "x" >>, << "(" >>,
      << "p", "a", "s", "s" >>, << "x", "\n", "x" >>, << >> }

\* What lexer.get_tokens(text) may yield.
RawTokens == [type : TokenTypes, text : TokenTexts]

NoToken == [type |-> "None", text |-> << >>]

-----------------------------------------------------------------------------
(* Language configuration.                                                 *)

\* lexer.name.lower()
LanguageId(name) ==
    CASE name = "Python" -> "python"
      [] name = "SQL" -> "sql"
      [] name = "C" -> "c"
      [] OTHER -> name

white_characters(language_id) == {"(", ")", "[", "]", "{", "}", ";"}

\* A language table without its entries.
white_code_words_none(language_id) == {}

white_code_words(language_id) ==
    CASE language_id = "python" -> { << "p", "a", "s", "s" >> }
      [] language_id = "sql" -> { << "b", "e", "g", "i", "n" >>, << "e", "n", "d" >> }
      [] OTHER -> {}

\* is_white_text of _line_parts
IsWhiteText(language_id, token_text) ==
    LET white_text == {" ", "\f", "\n", "\r", "\t"} \cup white_characters(language_id)
    IN  \/ Strip(token_text) \in white_code_words(language_id)
        \/ RStrip(token_text, white_text) = << >>

\* The mark _line_parts adds for a token; "" when it adds none.
MarkOf(language_id, tok) ==
    IF InComment(tok.type) THEN "d"
    ELSE IF InString(tok.type) THEN "s"
    ELSE IF ~IsWhiteText(language_id, tok.text) THEN "c"
    ELSE ""

\* The loop with a break after the first mark present.
MarkToIncrementBreak(line_parts) ==
    IF "d" \in line_parts THEN "d" ELSE IF "s" \in line_parts THEN "s"
    ELSE IF "c" \in line_parts THEN "c" ELSE "e"

\* The loop over ('d', 's', 'c') of source_analysis: every mark present
\* overwrites mark_to_increment, so the last one present stays.
RECURSIVE MarkLoop(_, _, _)
MarkLoop(marks_to_check, line_parts, mark_to_increment) ==
    IF marks_to_check = << >> THEN mark_to_increment
    ELSE MarkLoop(Tail(marks_to_check), line_parts,
                  IF Head(marks_to_check) \in line_parts
                  THEN Head(marks_to_check) ELSE mark_to_increment)

MarkToIncrement(line_parts) == MarkLoop(<< "d", "s", "c" >>, line_parts, "e")

-----------------------------------------------------------------------------
(* Files and encodings.  A byte is a one-character string when it is an    *)
(* ASCII character and a two-digit hexadecimal name otherwise; an encoding *)
(* name is the sequence of its characters.                                 *)

AUTOMATIC == << "a", "u", "t", "o", "m", "a", "t", "i", "c" >>
CHARDET == << "c", "h", "a", "r", "d", "e", "t" >>
UTF8 == << "u", "t", "f", "-", "8" >>
UTF8SIG == << "u", "t", "f", "-", "8", "-", "s", "i", "g" >>
UTF32LE == << "u", "t", "f", "-", "3", "2", "-", "l", "e" >>
UTF16BE == << "u", "t", "f", "-", "1", "6", "-", "b", "e" >>
UTF16LE == << "u", "t", "f", "-", "1", "6", "-", "l", "e" >>
UTF32BE == << "u", "t", "f", "-", "3", "2", "-", "b", "e" >>
ASCII == << "a", "s", "c", "i", "i" >>
LATIN1 == << "l", "a", "t", "i", "n", "-", "1" >>
CP1252 == << "c", "p", "1", "2", "5", "2" >>
NoEncoding == << >>

\* The bytes of the model that are not ASCII characters (0x80 and above).
HighBytes == {"81", "A9", "BB", "BF", "C3", "EF", "FE", "FF"}

\* The bytes of the model whose value is at most 0x10.
PlaneBytes == {"00", "\t", "\n", "\f", "\r"}

Min(a, b) == IF a < b THEN a ELSE b

MaxOf(S) == CHOOSE x \in S : \A y \in S : y <= x

\* source_file.read(128) of a file opened 'rb'
HeadingSize == 128

ReadHeading(bytes) == SubSeq(bytes, 1, Min(HeadingSize, Len(bytes)))

_BOM_TO_ENCODING_MAP ==
    << [bom |-> << "EF", "BB", "BF" >>, encoding |-> UTF8SIG],
       [bom |-> << "FF", "FE", "00", "00" >>, encoding |-> UTF32LE],
       [bom |-> << "FE", "FF" >>, encoding |-> UTF16BE],
       [bom |-> << "FF", "FE" >>, encoding |-> UTF16LE],
       [bom |-> << "00", "00", "FE", "FF" >>, encoding |-> UTF32BE] >>

\* heading[:len(bom)] == bom
StartsWith(hd, bom) == SubSeq(hd, 1, Min(Len(bom), Len(hd))) = bom

RECURSIVE BomLoopNoBreak(_, _)
\* The loop without its break: the last signature that matches stays.
BomLoopNoBreak(items, hd) ==
    IF items = << >> THEN NoEncoding
    ELSE IF BomLoopNoBreak(Tail(items), hd) # NoEncoding THEN BomLoopNoBreak(Tail(items), hd)
    ELSE IF StartsWith(hd, Head(items).bom) THEN Head(items).encoding
    ELSE NoEncoding

RECURSIVE BomLoop(_, _)
\* for bom, encoding in _BOM_TO_ENCODING_MAP.items(): ... break
BomLoop(items, hd) ==
    IF items = << >> THEN NoEncoding
    ELSE IF StartsWith(hd, Head(items).bom) THEN Head(items).encoding
    ELSE BomLoop(Tail(items), hd)

BomEncoding(hd) == BomLoop(_BOM_TO_ENCODING_MAP, hd)

\* heading.decode('ascii', errors='replace')
DecodeAsciiReplace(hd) ==
    [i \in 1..Len(hd) |-> IF hd[i] \in HighBytes THEN "FFFD" ELSE hd[i]]

RECURSIVE NormalizedSlice(_, _, _)
\* s[lo..hi] with every "\r\n" and every "\r" left turned into "\n": the "\n"
\* of a "\r\n" goes, and every "\r" becomes "\n".  Halved to keep the nesting low.
NormalizedSlice(s, lo, hi) ==
    IF lo > hi THEN << >>
    ELSE IF lo = hi
         THEN (IF s[lo] = "\n" /\ lo > 1 /\ s[lo - 1] = "\r" THEN << >>
               ELSE IF s[lo] = "\r" THEN << "\n" >>
               ELSE << s[lo] >>)
    ELSE NormalizedSlice(s, lo, (lo + hi) \div 2)
             \o NormalizedSlice(s, ((lo + hi) \div 2) + 1, hi)

\* .replace('\r\n', '\n').replace('\r', '\n')
NormalizeNewlines(s) == NormalizedSlice(s, 1, Len(s))

\* '\n'.join(s.split('\n')[:2]) + '\n'
FirstTwoLines(s) ==
    LET nls == {i \in 1..Len(s) : s[i] = "\n"}
        second == {i \in nls : \E j \in nls : j < i}
    IN  (IF second = {} THEN s
         ELSE SubSeq(s, 1, (CHOOSE i \in second : \A j \in second : i <= j) - 1))
        \o << "\n" >>

\* s.split('\n')[0]
FirstLine(s) ==
    LET n == FindNewline(s) IN IF n = 0 THEN s ELSE SubSeq(s, 1, n - 1)

Letters ==
    {"a", "b", "c", "d", "e", "f", "g", "h", "i", "j", "k", "l", "m", "n", "o", "p", "q",
     "r", "s", "t", "u", "v", "w", "x", "y", "z",
     "A", "B", "C", "D", "E", "F", "G", "H", "I", "J", "K", "L", "M", "N", "O", "P", "Q",
     "R", "S", "T", "U", "V", "W", "X", "Y", "Z"}

Digits == {"0", "1", "2", "3", "4", "5", "6", "7", "8", "9"}

\* [-_.a-zA-Z0-9]
NameChars == Letters \cup Digits \cup {"-", "_", "."}

\* \w, among the characters of the model
WordChars == Letters \cup Digits \cup {"_"}

IsWordAt(s, i) == i >= 1 /\ i <= Len(s) /\ s[i] \in WordChars

\* \b between s[i] and s[i + 1]
Boundary(s, i) == IsWordAt(s, i) # IsWordAt(s, i + 1)

\* s[p:].startswith(lit)
LiteralAt(s, p, lit) ==
    p + Len(lit) - 1 <= Len(s) /\ SubSeq(s, p, p + Len(lit) - 1) = lit

RECURSIVE SkipBlanks(_, _)
\* [ \t]* from position q: the position after the blanks
SkipBlanks(s, q) ==
    IF q <= Len(s) /\ s[q] \in {" ", "\t"} THEN SkipBlanks(s, q + 1) ELSE q

RECURSIVE NameRun(_, _)
\* The length of the longest run of [-_.a-zA-Z0-9] from position q.
NameRun(s, q) ==
    IF q <= Len(s) /\ s[q] \in NameChars THEN 1 + NameRun(s, q + 1) ELSE 0

\* coding[:=][ \t]*(?P<encoding>[-_.a-zA-Z0-9]+)\b at position p: the group, or
\* the empty sequence when there is no match.  The group is greedy and gives
\* characters back until a word boundary follows it.
CodingAt(s, p) ==
    IF /\ LiteralAt(s, p, << "c", "o", "d", "i", "n", "g" >>)
       /\ p + 6 <= Len(s)
       /\ s[p + 6] \in {":", "="}
    THEN LET q == SkipBlanks(s, p + 7)
             ks == {k \in 1..NameRun(s, q) : Boundary(s, q + k - 1)}
         IN  IF ks = {} THEN << >> ELSE SubSeq(s, q, q + MaxOf(ks) - 1)
    ELSE << >>

\* The regex with a lazy .+?: the first place that matches is the one found.
CodingMagicMatchFirst(s) ==
    LET ps == {p \in 2..Len(s) : CodingAt(s, p) # << >>}
    IN  IF ps = {} THEN NoEncoding ELSE CodingAt(s, CHOOSE p \in ps : \A q \in ps : p <= q)

\* _CODING_MAGIC_REGEX.match(s): .+ is greedy over every character (DOTALL) and
\* takes at least one, so the last place that matches is the one found.
CodingMagicMatch(s) ==
    LET ps == {p \in 2..Len(s) : CodingAt(s, p) # << >>}
    IN  IF ps = {} THEN NoEncoding ELSE CodingAt(s, MaxOf(ps))

\* _XML_PROLOG_REGEX.match(first_line): <\?xml\s+.*encoding="(...)".*\?>
XmlPrologMatch(first_line) ==
    LET lit == << "e", "n", "c", "o", "d", "i", "n", "g", "=", "\"" >>
        ok(p) == /\ LiteralAt(first_line, p, lit)
                 /\ NameRun(first_line, p + 10) >= 1
                 /\ LiteralAt(first_line, p + 10 + NameRun(first_line, p + 10), << "\"" >>)
                 /\ \E e \in (p + 11 + NameRun(first_line, p + 10))..Len(first_line) :
                        LiteralAt(first_line, e, << "?", ">" >>)
        ps == {p \in 7..Len(first_line) : ok(p)}
    IN  IF /\ LiteralAt(first_line, 1, << "<", "?", "x", "m", "l" >>)
           /\ Len(first_line) >= 6
           /\ first_line[6] \in {" ", "\t", "\f", "\r"}
           /\ ps # {}
        THEN SubSeq(first_line, MaxOf(ps) + 10,
                    MaxOf(ps) + 9 + NameRun(first_line, MaxOf(ps) + 10))
        ELSE NoEncoding

\* Lines 157-168 of encoding_for: the coding declaration, else the XML prolog.
MagicEncoding(hd) ==
    LET ascii_heading == FirstTwoLines(NormalizeNewlines(DecodeAsciiReplace(hd)))
    IN  IF CodingMagicMatch(ascii_heading) # NoEncoding
        THEN CodingMagicMatch(ascii_heading)
        ELSE XmlPrologMatch(FirstLine(ascii_heading))

-----------------------------------------------------------------------------
(* The codecs.                                                             *)

KnownCodecs ==
    {UTF8, UTF8SIG, UTF32LE, UTF16BE, UTF16LE, UTF32BE, ASCII, LATIN1, CP1252}

\* 0x80..0xBF among the bytes of the model
ContinuationBytes == {"81", "A9", "BB", "BF"}

\* The utf-8 decoder accepts b: C3 leads two bytes, EF three, FE and FF none,
\* and a continuation byte is the second of two or the second or third of three.
Utf8Valid(b) ==
    \A i \in 1..Len(b) :
        CASE b[i] = "C3" -> i + 1 <= Len(b) /\ b[i + 1] \in ContinuationBytes
          [] b[i] = "EF" ->
                /\ i + 2 <= Len(b)
                /\ b[i + 1] \in ContinuationBytes
                /\ b[i + 2] \in ContinuationBytes
          [] b[i] \in ContinuationBytes ->
                \/ i >= 2 /\ b[i - 1] \in {"C3", "EF"}
                \/ i >= 3 /\ b[i - 2] = "EF" /\ b[i - 1] \in ContinuationBytes
          [] b[i] \in {"FE", "FF"} -> FALSE
          [] OTHER -> TRUE

\* A utf-32 unit is a code point up to 0x10FFFF: its top byte is 0 and the next
\* one at most 0x10.
Utf32Valid(b, top, plane) ==
    /\ Len(b) % 4 = 0
    /\ \A u \in 0..((Len(b) \div 4) - 1) :
           b[4 * u + top] = "00" /\ b[4 * u + plane] \in PlaneBytes

\* Whether bytes.decode(codec) succeeds, for a codec of KnownCodecs.  No byte of
\* the model is 0xD8..0xDF, so no utf-16 unit is a surrogate.
Decodable(codec, b) ==
    CASE codec = UTF8 -> Utf8Valid(b)
      [] codec = UTF8SIG ->
            Utf8Valid(IF StartsWith(b, << "EF", "BB", "BF" >>) THEN SubSeq(b, 4, Len(b)) ELSE b)
      [] codec = ASCII -> \A i \in 1..Len(b) : b[i] \notin HighBytes
      [] codec = LATIN1 -> TRUE
      [] codec = CP1252 -> \A i \in 1..Len(b) : b[i] # "81"
      [] codec \in {UTF16LE, UTF16BE} -> Len(b) % 2 = 0
      [] codec = UTF32LE -> Utf32Valid(b, 4, 3)
      [] codec = UTF32BE -> Utf32Valid(b, 1, 2)
      [] OTHER -> FALSE

\* source_file.read(16384) of the file opened as utf-8
ProbeSize == 16384

Utf8Probe(b) == Utf8Valid(SubSeq(b, 1, Min(ProbeSize, Len(b))))

\* encoding_for(source_path, 'automatic', fallback_encoding) on a file that opens.
AutomaticEncoding(bytes, fallback_encoding) ==
    LET h == ReadHeading(bytes)
    IN  IF Len(h) = 0 THEN UTF8
        ELSE IF BomEncoding(h) # NoEncoding THEN BomEncoding(h)
        ELSE IF MagicEncoding(h) # NoEncoding THEN MagicEncoding(h)
        ELSE IF Utf8Probe(bytes) THEN UTF8
        ELSE fallback_encoding

-----------------------------------------------------------------------------
(* source_analysis.                                                        *)

NoResult == [language |-> "unset", code |-> 0, documentation |-> 0, empty |-> 0, string |-> 0]

\* SourceAnalysis(source_path, language, group, 0, 0, 0, 0)
ZeroResult(language) ==
    [language |-> language, code |-> 0, documentation |-> 0, empty |-> 0, string |-> 0]

ZeroCounts == [m \in {"c", "d", "e", "s"} |-> 0]

\* mark_to_count_map[mark_to_increment] = 1
IncrementCountAssign(map, mark) == [map EXCEPT ![mark] = 1]

\* mark_to_count_map[mark_to_increment] += 1
IncrementCount(map, mark) == [map EXCEPT ![mark] = @ + 1]

BlankLine == [strCtx |-> {}, word |-> FALSE, com |-> FALSE, pass |-> "blank", passCode |-> "blank"]

\* has_chardet, and what the shared detector holds: how often it was reset, the
\* lines fed since, its done flag.
NoDetector == [present |-> FALSE, resets |-> 0, fed |-> 0, done |-> FALSE]

FreshDetector == [present |-> TRUE, resets |-> 0, fed |-> 0, done |-> FALSE]

\* The detector as an earlier file left it.
UsedDetector == [present |-> TRUE, resets |-> 0, fed |-> 1, done |-> TRUE]

IsOther(t) == ~InComment(t) /\ ~InString(t)

IsBlankText(text) == RStrip(text, PyWhitespace) = << >>

\* Observer: the line after one more token of it, seen when the last code token
\* was sig.
LineWith(l, tok, sig, language_id) ==
    LET isPass == Strip(tok.text) = << "p", "a", "s", "s" >>
        step(k, counts_it) ==
            IF counts_it /\ IsBlankText(tok.text) THEN k
            ELSE IF counts_it /\ isPass /\ k = "blank" THEN "pass"
            ELSE "other"
    IN  [strCtx |-> IF InString(tok.type) THEN l.strCtx \cup {sig} ELSE l.strCtx,
         word |-> l.word \/ (/\ IsOther(tok.type)
                             /\ \E i \in 1..Len(tok.text) :
                                    tok.text[i] \notin PyWhitespace \cup white_characters(language_id)
                             /\ Strip(tok.text) \notin white_code_words(language_id)),
         com |-> l.com \/ InComment(tok.type),
         pass |-> step(l.pass, ~InComment(tok.type)),
         passCode |-> step(l.passCode, IsOther(tok.type))]

\* Observer: the last code token after tok: a colon, other code, or, after a
\* comment or a string that is nothing but a colon, "unsure".
SigAfter(sig, tok) ==
    IF tok.text = << ":" >> THEN (IF IsOther(tok.type) THEN "colon" ELSE "unsure")
    ELSE IF IsOther(tok.type) /\ ~IsBlankText(tok.text) THEN "code"
    ELSE sig

Newlines(text) == Cardinality({i \in 1..Len(text) : text[i] = "\n"})

\* lexers.get_lexer_for_filename(source_path), and the skip when there is none
GetLexer ==
    /\ pc = "start"
    /\ IF lexer = "None"
       THEN result' = ZeroResult("None") /\ pc' = "done"
       ELSE pc' = "resolve" /\ UNCHANGED result
    /\ UNCHANGED << encoding, ntok, exhausted, pending, cur,
                    is_after_colon, line_marks, yielded, counts, emitted, nl, tail,
                    lastSig, ln >>
    /\ UNCHANGED << args, encVars >>

\* if encoding == 'automatic': encoding = encoding_for(...), outside any try:
\* the OSError of encoding_for's open() leaves source_analysis.
ResolveEncoding ==
    /\ pc = "resolve"
    /\ IF encoding = AUTOMATIC
       THEN IF file.state = "ok"
            THEN encoding' = AutomaticEncoding(file.bytes, fallback) /\ pc' = "read"
            ELSE pc' = "raised" /\ UNCHANGED encoding
       ELSE pc' = "read" /\ UNCHANGED encoding
    /\ UNCHANGED << result, ntok, exhausted, pending, cur,
                    is_after_colon, line_marks, yielded, counts, emitted, nl, tail,
                    lastSig, ln >>
    /\ UNCHANGED << args, encVars >>

\* open(source_path, 'r', encoding=encoding) and read(): OSError and
\* UnicodeDecodeError are caught, the LookupError of an unknown codec is not.
ReadFile ==
    /\ pc = "read"
    /\ IF file.state # "ok"
       THEN result' = ZeroResult("error") /\ pc' = "done"
       ELSE IF encoding \notin KnownCodecs
       THEN pc' = "raised" /\ UNCHANGED result
       ELSE IF ~Decodable(encoding, file.bytes)
       THEN result' = ZeroResult("error") /\ pc' = "done"
       ELSE pc' = "pull" /\ UNCHANGED result
    /\ UNCHANGED << encoding, ntok, exhausted, pending, cur,
                    is_after_colon, line_marks, yielded, counts, emitted, nl, tail,
                    lastSig, ln >>
    /\ UNCHANGED << args, encVars >>

\* lexer.get_tokens(text) yields its next token to _delined_tokens.
LexToken ==
    /\ pc = "pull"
    /\ pending.text = << >>
    /\ ~exhausted
    /\ ntok < MaxTokens
    /\ \E tok \in RawTokens :
          /\ pending' = tok
          /\ nl' = nl + Newlines(tok.text)
          /\ tail' = IF tok.text = << >> THEN tail ELSE ~EndsWithNewline(tok.text)
    /\ ntok' = ntok + 1
    /\ UNCHANGED << pc, encoding, result, exhausted, cur,
                    is_after_colon, line_marks, yielded, counts, emitted, lastSig, ln >>
    /\ UNCHANGED << args, encVars >>

\* lexer.get_tokens(text) ends, and with it every generator up to _line_parts.
LexEnd ==
    /\ pc = "pull"
    /\ pending.text = << >>
    /\ ~exhausted
    /\ exhausted' = TRUE
    /\ pc' = "leftover"
    /\ UNCHANGED << encoding, result, ntok, pending, cur,
                    is_after_colon, line_marks, yielded, counts, emitted, nl, tail,
                    lastSig, ln >>
    /\ UNCHANGED << args, encVars >>

\* The text _delined_tokens yields next from token_text: up to and including the
\* first newline, or all of it.
DelinedPiece(token_text) ==
    IF FindNewline(token_text) # 0
    THEN SubSeq(token_text, 1, FindNewline(token_text))
    ELSE token_text

\* _delined_tokens yields one piece of the token it holds.
Delined ==
    /\ pc = "pull"
    /\ pending.text # << >>
    /\ LET piece == [type |-> pending.type, text |-> DelinedPiece(pending.text)]
       IN  /\ cur' = piece
           /\ pending' = [pending EXCEPT
                  !.text = SubSeq(pending.text, Len(piece.text) + 1, Len(pending.text))]
           /\ ln' = LineWith(ln, piece, lastSig, LanguageId(lexer))
           /\ lastSig' = SigAfter(lastSig, piece)
    /\ pc' = IF lexer = "Python" THEN "py" ELSE "parts"
    /\ UNCHANGED << encoding, result, ntok, exhausted,
                    is_after_colon, line_marks, yielded, counts, emitted, nl, tail >>
    /\ UNCHANGED << args, encVars >>

\* The token_type _pythonized_comments yields for a token.
PythonizedType(after_colon, tok) ==
    IF after_colon /\ InString(tok.type) THEN TokenComment ELSE tok.type

\* _pythonized_comments without its elif token_text == ':'.
PythonizedStateNoColon(after_colon, tok) ==
    IF after_colon /\ InString(tok.type) THEN after_colon
    ELSE IF ~InComment(tok.type)
         THEN (IF Len(RStrip(tok.text, {" ", "\f", "\n", "\r", "\t"})) = 0
               THEN after_colon ELSE FALSE)
    ELSE after_colon

\* _pythonized_comments with the string it has converted ending the eligibility.
PythonizedStateStringResets(after_colon, tok) ==
    IF tok.text = << ":" >> /\ ~(after_colon /\ InString(tok.type)) THEN TRUE
    ELSE IF ~InComment(tok.type)
         THEN (IF Len(RStrip(tok.text, {" ", "\f", "\n", "\r", "\t"})) = 0
               THEN after_colon ELSE FALSE)
    ELSE after_colon

\* is_after_colon once _pythonized_comments has seen a token.
PythonizedState(after_colon, tok) ==
    IF after_colon /\ InString(tok.type) THEN after_colon
    ELSE IF tok.text = << ":" >> THEN TRUE
    ELSE IF ~InComment(tok.type)
         THEN (IF Len(RStrip(tok.text, {" ", "\f", "\n", "\r", "\t"})) = 0
               THEN after_colon ELSE FALSE)
    ELSE after_colon

\* One round of _pythonized_comments' loop.
Pythonized ==
    /\ pc = "py"
    /\ cur' = [cur EXCEPT !.type = PythonizedType(is_after_colon, cur)]
    /\ is_after_colon' = PythonizedState(is_after_colon, cur)
    /\ pc' = "parts"
    /\ UNCHANGED << encoding, result, ntok, exhausted,
                    pending, line_marks, yielded, counts, emitted, nl, tail, lastSig, ln >>
    /\ UNCHANGED << args, encVars >>

\* line_marks after _line_parts has marked a token.
MarksWith(marks, language_id, tok) ==
    IF MarkOf(language_id, tok) = "" THEN marks ELSE marks \cup {MarkOf(language_id, tok)}

\* One round of _line_parts' loop: mark, and yield at the end of a line.
LineParts ==
    /\ pc = "parts"
    /\ LET marks == MarksWith(line_marks, LanguageId(lexer), cur)
       IN  IF EndsWithNewline(cur.text)
           THEN /\ yielded' = marks
                /\ line_marks' = {}
                /\ emitted' = emitted + 1
                /\ pc' = "count"
           ELSE /\ line_marks' = marks
                /\ pc' = "pull"
                /\ UNCHANGED << yielded, emitted >>
    /\ UNCHANGED << encoding, result, ntok, exhausted,
                    pending, cur, is_after_colon, counts, nl, tail, lastSig, ln >>
    /\ UNCHANGED << args, encVars >>

\* _line_parts yielding what is left without looking at it.
YieldsLeftoverAlways(marks) == TRUE

\* Whether _line_parts yields what is left when the tokens end.
YieldsLeftover(marks) == Cardinality(marks) >= 1

\* _line_parts after its loop: if len(line_marks) >= 1: yield line_marks
Leftover ==
    /\ pc = "leftover"
    /\ IF YieldsLeftover(line_marks)
       THEN yielded' = line_marks /\ emitted' = emitted + 1 /\ pc' = "count"
       ELSE pc' = "return" /\ UNCHANGED << yielded, emitted >>
    /\ UNCHANGED << encoding, result, ntok, exhausted,
                    pending, cur, is_after_colon, line_marks, counts, nl, tail, lastSig, ln >>
    /\ UNCHANGED << args, encVars >>

\* The body of source_analysis' loop over _line_parts(lexer, text).
Count ==
    /\ pc = "count"
    /\ counts' = IncrementCount(counts, MarkToIncrement(yielded))
    /\ pc' = IF exhausted THEN "return" ELSE "pull"
    /\ ln' = IF exhausted THEN ln ELSE BlankLine
    /\ UNCHANGED << encoding, result, ntok, exhausted,
                    pending, cur, is_after_colon, line_marks, yielded, emitted, nl, tail,
                    lastSig >>
    /\ UNCHANGED << args, encVars >>

\* result = SourceAnalysis(path=..., language=lexer.name, ...)
Return ==
    /\ pc = "return"
    /\ result' = [language |-> lexer, code |-> counts["c"], documentation |-> counts["d"],
                  empty |-> counts["e"], string |-> counts["s"]]
    /\ pc' = "done"
    /\ UNCHANGED << encoding, ntok, exhausted, pending, cur,
                    is_after_colon, line_marks, yielded, counts, emitted, nl, tail,
                    lastSig, ln >>
    /\ UNCHANGED << args, encVars >>

Missing == [state |-> "missing", bytes |-> << >>]
Denied == [state |-> "denied", bytes |-> << >>]
Bytes(b) == [state |-> "ok", bytes |-> b]

\* The files source_analysis is called on.
Files ==
    { Missing, Denied, Bytes(<< "x", "\n" >>), Bytes(<< "FF" >>) }

\* The encoding arguments source_analysis is called with.
Modes == {AUTOMATIC, CHARDET, ASCII}

Init ==
    /\ pc = "start"
    /\ lexer \in {"Python", "C", "None"}
    /\ file \in Files
    /\ mode \in Modes
    /\ fallback \in {CP1252}
    /\ encoding = mode
    /\ result = NoResult
    /\ ntok = 0
    /\ exhausted = FALSE
    /\ pending = NoToken
    /\ cur = NoToken
    /\ is_after_colon = TRUE
    /\ line_marks = {}
    /\ yielded = {}
    /\ counts = ZeroCounts
    /\ emitted = 0
    /\ nl = 0
    /\ tail = FALSE
    /\ lastSig = "start"
    /\ ln = BlankLine
    /\ epc = "idle"
    /\ heading = << >>
    /\ eresult = NoEncoding
    /\ lines = << >>
    /\ detector \in {NoDetector, FreshDetector}
    /\ (mode # CHARDET => detector = FreshDetector)

Next ==
    \/ GetLexer
    \/ ResolveEncoding
    \/ ReadFile
    \/ LexToken
    \/ LexEnd
    \/ Delined
    \/ Pythonized
    \/ LineParts
    \/ Leftover
    \/ Count
    \/ Return

Spec == Init /\ [][Next]_vars

-----------------------------------------------------------------------------
(* encoding_for, called on its own, statement by statement.                *)

\* Bytes of a file after a possible byte-order mark.
MaxBomFile == 4

\* Characters of the first line of a file with a coding declaration.
MaxFirstLine == 110

BomAlphabet == {"EF", "BB", "BF", "FF", "FE", "00", "x"}

RECURSIVE SeqsUpTo(_, _)
\* Every sequence over S of length at most n.
SeqsUpTo(S, n) ==
    IF n = 0 THEN {<< >>}
    ELSE LET shorter == SeqsUpTo(S, n - 1)
         IN  shorter \cup {Append(t, x) : t \in {u \in shorter : Len(u) = n - 1}, x \in S}

CodingLine == << "#", " ", "-", "*", "-", " ", "c", "o", "d", "i", "n", "g", ":", " ", "l", "a", "t", "i", "n", "-", "1", " ", "-", "*", "-" >>

XmlLine == << "<", "?", "x", "m", "l", " ", "v", "e", "r", "s", "i", "o", "n", "=", "\"", "1", ".", "0", "\"", " ", "e", "n", "c", "o", "d", "i", "n", "g", "=", "\"", "u", "t", "f", "-", "8", "\"", "?", ">" >>

\* Files that start with any bytes a byte-order mark is made of, some followed by
\* a coding declaration.
BomFiles ==
    LET starts == SeqsUpTo(BomAlphabet, MaxBomFile)
    IN  starts \cup {t \o CodingLine \o << "\n" >> : t \in {u \in starts : Len(u) >= 2}}

\* n times the character c
Fill(c, n) == [i \in 1..n |-> c]

\* First lines: of every length up to MaxFirstLine, plain, with a byte that is
\* not ASCII, or with a coding declaration of their own.
FirstLines ==
    {Fill("x", n) : n \in 0..MaxFirstLine}
        \cup {<< "C3", "A9" >> \o Fill("x", n) : n \in 0..(MaxFirstLine - 2)}
        \cup {<< "#", " ", "c", "o", "d", "i", "n", "g", ":", " ", "u", "t", "f", "-", "8", " " >> \o Fill("x", n) : n \in 0..(MaxFirstLine - 16)}

\* Files without a byte-order mark whose second line is the coding declaration.
DeclFiles ==
    {first \o eol \o CodingLine \o rest :
        first \in FirstLines,
        eol \in {<< "\n" >>, << "\r", "\n" >>, << "\r" >>},
        rest \in {<< >>, << "\n" >>, << "\n", "c", "o", "d", "i", "n", "g", ":", " ", "a", "s", "c", "i", "i", "\n" >>}}

\* The files encoding_for is called on.
EncFiles ==
    {Missing} \cup {Bytes(b) : b \in BomFiles \cup DeclFiles \cup {XmlLine, XmlLine \o << "\n", "x" >>}}

\* b'...'.splitlines(keepends=True) as readlines() gives them
RECURSIVE ReadLines(_)
ReadLines(b) ==
    IF b = << >> THEN << >>
    ELSE IF FindNewline(b) = 0 THEN << b >>
    ELSE << SubSeq(b, 1, FindNewline(b)) >> \o ReadLines(SubSeq(b, FindNewline(b) + 1, Len(b)))

EncUnchanged == UNCHANGED << args, saVars >>

\* if encoding == 'automatic' / elif encoding == 'chardet' / else
EncDispatch ==
    /\ epc = "start"
    /\ IF mode = AUTOMATIC THEN epc' = "heading" /\ UNCHANGED eresult
       ELSE IF mode = CHARDET THEN epc' = "assert" /\ UNCHANGED eresult
       ELSE eresult' = mode /\ epc' = "return"
    /\ UNCHANGED << heading, lines, detector >>
    /\ EncUnchanged

\* open(source_path, 'rb'), heading = source_file.read(128), and the empty file
EncReadHeading ==
    /\ epc = "heading"
    /\ IF file.state # "ok"
       THEN epc' = "raised" /\ UNCHANGED << heading, eresult >>
       ELSE /\ heading' = ReadHeading(file.bytes)
            /\ eresult' = IF Len(ReadHeading(file.bytes)) = 0 THEN UTF8 ELSE NoEncoding
            /\ epc' = "bom"
    /\ UNCHANGED << lines, detector >>
    /\ EncUnchanged

\* if result is None: check for known BOMs
EncBom ==
    /\ epc = "bom"
    /\ eresult' = IF eresult = NoEncoding THEN BomEncoding(heading) ELSE eresult
    /\ epc' = "magic"
    /\ UNCHANGED << heading, lines, detector >>
    /\ EncUnchanged

\* if result is None: look for common headings that indicate the encoding
EncMagic ==
    /\ epc = "magic"
    /\ eresult' = IF eresult = NoEncoding THEN MagicEncoding(heading) ELSE eresult
    /\ epc' = "probe"
    /\ UNCHANGED << heading, lines, detector >>
    /\ EncUnchanged

\* if result is None: read the file as UTF-8, or assume the fallback encoding
EncProbe ==
    /\ epc = "probe"
    /\ eresult' = IF eresult # NoEncoding THEN eresult
                  ELSE IF Utf8Probe(file.bytes) THEN UTF8 ELSE fallback
    /\ epc' = "return"
    /\ UNCHANGED << heading, lines, detector >>
    /\ EncUnchanged

\* assert _detector is not None, then _detector.reset()
DetectorReset ==
    /\ epc = "assert"
    /\ IF detector.present
       THEN /\ detector' = [detector EXCEPT !.resets = 1, !.fed = 0, !.done = FALSE]
            /\ epc' = "open"
       ELSE epc' = "raised" /\ UNCHANGED detector
    /\ UNCHANGED << heading, eresult, lines >>
    /\ EncUnchanged

\* open(source_path, 'rb') and source_file.readlines()
DetectorOpen ==
    /\ epc = "open"
    /\ IF file.state # "ok"
       THEN epc' = "raised" /\ UNCHANGED lines
       ELSE lines' = ReadLines(file.bytes) /\ epc' = "feed"
    /\ UNCHANGED << heading, eresult, detector >>
    /\ EncUnchanged

\* _detector.feed(line); if _detector.done: break.  Whether the detector is done
\* after a line is its own business.
DetectorFeed ==
    /\ epc = "feed"
    /\ lines # << >>
    /\ \E done \in BOOLEAN :
          /\ detector' = [detector EXCEPT !.fed = @ + 1, !.done = done]
          /\ lines' = IF done THEN << >> ELSE Tail(lines)
    /\ UNCHANGED << epc, heading, eresult >>
    /\ EncUnchanged

\* result = _detector.result['encoding'], which chardet may leave None
DetectorResult ==
    /\ epc = "feed"
    /\ lines = << >>
    /\ \E guess \in {UTF8, LATIN1, NoEncoding} : eresult' = guess
    /\ epc' = "return"
    /\ UNCHANGED << heading, lines, detector >>
    /\ EncUnchanged

\* assert result is not None; return result
EncReturn ==
    /\ epc = "return"
    /\ epc' = IF eresult = NoEncoding THEN "raised" ELSE "done"
    /\ UNCHANGED << heading, eresult, lines, detector >>
    /\ EncUnchanged

InitEnc ==
    /\ epc = "start"
    /\ file \in EncFiles
    /\ mode \in {AUTOMATIC, CHARDET, LATIN1}
    /\ fallback = CP1252
    /\ detector \in {NoDetector, FreshDetector, UsedDetector}
    /\ (mode # CHARDET => detector = FreshDetector)
    /\ (mode # AUTOMATIC => file.bytes \in SeqsUpTo(BomAlphabet, 2) \cup {XmlLine \o << "\n", "x" >>})
    /\ heading = << >>
    /\ eresult = NoEncoding
    /\ lines = << >>
    /\ lexer = "None"
    /\ pc = "idle"
    /\ encoding = mode
    /\ result = NoResult
    /\ ntok = 0
    /\ exhausted = FALSE
    /\ pending = NoToken
    /\ cur = NoToken
    /\ is_after_colon = TRUE
    /\ line_marks = {}
    /\ yielded = {}
    /\ counts = ZeroCounts
    /\ emitted = 0
    /\ nl = 0
    /\ tail = FALSE
    /\ lastSig = "start"
    /\ ln = BlankLine

NextEnc ==
    \/ EncDispatch
    \/ EncReadHeading
    \/ EncBom
    \/ EncMagic
    \/ EncProbe
    \/ DetectorReset
    \/ DetectorOpen
    \/ DetectorFeed
    \/ DetectorResult
    \/ EncReturn

SpecEnc == InitEnc /\ [][NextEnc]_vars

-----------------------------------------------------------------------------
(* Properties.                                                             *)

\* source_analysis' loop body adds one to the counter of mark m and to no other.
Counted(m) == counts' = [counts EXCEPT ![m] = @ + 1]

DocFirst(marks) ==
    IF "d" \in marks THEN "d" ELSE IF "s" \in marks THEN "s"
    ELSE IF "c" \in marks THEN "c" ELSE "e"

CodeFirst(marks) ==
    IF "c" \in marks THEN "c" ELSE IF "s" \in marks THEN "s"
    ELSE IF "d" \in marks THEN "d" ELSE "e"

\* C1 as claimed: every yielded set of marks adds one to exactly one counter,
\* that of the first mark present in the order documentation, string, code, and
\* the empty counter when the set is empty.
C1_DocumentationFirst == [][pc = "count" => Counted(DocFirst(yielded))]_vars

\* C1, amended: every yielded set of marks adds one to exactly one counter, that
\* of the first mark present in the order code, string, documentation, and the
\* empty counter when the set is empty.
C1_CodeFirst == [][pc = "count" => Counted(CodeFirst(yielded))]_vars

\* A line marked as code, string and documentation has just been counted as code.
C1_Witness ==
    /\ pc = "pull"
    /\ yielded = {"c", "d", "s"}
    /\ emitted = 1
    /\ counts = [ZeroCounts EXCEPT !["c"] = 1]

\* C2: with a lexer found, a file that cannot be opened never makes
\* source_analysis raise, whatever the encoding mode, and the result returned for
\* it is the zero result of language "error".
C2_UnreadableFileIsErrorResult ==
    (lexer # "None" /\ file.state # "ok") =>
        /\ pc # "raised"
        /\ (pc = "done" => result = ZeroResult("error"))

SumOf(r) == r.code + r.documentation + r.empty + r.string

SumCounts == counts["c"] + counts["d"] + counts["e"] + counts["s"]

\* C3: the four counts of every result returned add up to the number of sets of
\* marks _line_parts yielded, each set adding one to one counter as it is
\* counted, and to zero for a skipped and for an errored file.
C3_CountsSumToEmitted ==
    /\ (pc = "done" => SumOf(result) = emitted)
    /\ (pc = "done" /\ result.language \in {"None", "error"} => SumOf(result) = 0)
    /\ (pc \in {"pull", "py", "parts", "leftover", "return"} => SumCounts = emitted)
    /\ (pc = "count" => SumCounts + 1 = emitted)

\* A result of three lines, one code, one documentation, one empty.
C3_Witness ==
    /\ pc = "done"
    /\ result.language = "Python"
    /\ emitted = 3
    /\ result.code = 1 /\ result.documentation = 1 /\ result.empty = 1

\* C4: called with 'chardet' and a detector at hand, source_analysis has the
\* detector reset before it opens the file, and does not open it with the mode's
\* own name as the encoding.
C4_DetectorGuessOpensFile ==
    (lexer # "None" /\ mode = CHARDET /\ detector.present /\ pc \notin {"start", "resolve"}) =>
        /\ encoding # CHARDET
        /\ detector.resets >= 1

ClaimedBomOrder ==
    << << << "EF", "BB", "BF" >>, UTF8SIG >>,
       << << "FF", "FE", "00", "00" >>, UTF32LE >>,
       << << "FE", "FF" >>, UTF16BE >>,
       << << "FF", "FE" >>, UTF16LE >>,
       << << "00", "00", "FE", "FF" >>, UTF32BE >> >>

IsPrefix(p, b) == Len(p) <= Len(b) /\ \A i \in 1..Len(p) : b[i] = p[i]

\* C5: in automatic mode, for a file that is not empty, encoding_for holds from
\* its byte-order-mark check on, and returns, the encoding of the first
\* signature of (utf-8-sig, utf-32-le, utf-16-be, utf-16-le, utf-32-be) that is
\* a prefix of the file, whatever coding declaration follows; FF FE 00 00 gives
\* utf-32-le.
C5_FirstBomInOrderWins ==
    (mode = AUTOMATIC /\ file.state = "ok" /\ epc \in {"magic", "probe", "return", "done"}) =>
        /\ \A i \in 1..Len(ClaimedBomOrder) :
              (/\ IsPrefix(ClaimedBomOrder[i][1], file.bytes)
               /\ \A j \in 1..(i - 1) : ~IsPrefix(ClaimedBomOrder[j][1], file.bytes))
                  => eresult = ClaimedBomOrder[i][2]
        /\ (IsPrefix(<< "FF", "FE", "00", "00" >>, file.bytes) => eresult = UTF32LE)

\* encoding_for has returned utf-32-le for FF FE 00 00 followed by a coding
\* declaration.
C5_Witness ==
    /\ epc = "done"
    /\ mode = AUTOMATIC
    /\ file.bytes = << "FF", "FE", "00", "00" >> \o CodingLine \o << "\n" >>
    /\ eresult = UTF32LE

\* Where the first line of b ends: the index of its first "\n" or "\r", 0 if none.
FirstEol(b) ==
    LET eols == {i \in 1..Len(b) : b[i] \in {"\n", "\r"}}
    IN  IF eols = {} THEN 0 ELSE CHOOSE i \in eols : \A j \in eols : i <= j

\* Where the second line of b starts.
SecondLineStart(b) ==
    IF b[FirstEol(b)] = "\r" /\ FirstEol(b) < Len(b) /\ b[FirstEol(b) + 1] = "\n"
    THEN FirstEol(b) + 2 ELSE FirstEol(b) + 1

\* b has no byte-order mark and its second line is the coding declaration.
SecondLineIsDeclaration(b) ==
    /\ \A i \in 1..Len(ClaimedBomOrder) : ~IsPrefix(ClaimedBomOrder[i][1], b)
    /\ FirstEol(b) # 0
    /\ LiteralAt(b, SecondLineStart(b), CodingLine)
    /\ LET after == SecondLineStart(b) + Len(CodingLine)
       IN  after > Len(b) \/ b[after] \in {"\n", "\r"}

\* Where the encoding name of the declaration on the second line of b ends.
DeclaredNameEnd(b) == SecondLineStart(b) + 21 - 1

\* C6 as claimed: in automatic mode encoding_for returns latin-1 for every file
\* without a byte-order mark whose second line is the coding declaration,
\* whatever its first line and however long.
C6_SecondLineDeclaration ==
    (mode = AUTOMATIC /\ file.state = "ok" /\ epc = "done" /\ SecondLineIsDeclaration(file.bytes))
        => eresult = LATIN1

\* C6, amended: ... whatever its first line, provided the declaration, up to the
\* end of the encoding name, lies within the first 128 bytes of the file.
C6_DeclarationWithinHeading ==
    (/\ mode = AUTOMATIC /\ file.state = "ok" /\ epc = "done"
     /\ SecondLineIsDeclaration(file.bytes)
     /\ DeclaredNameEnd(file.bytes) <= 128)
        => eresult = LATIN1

\* encoding_for has returned latin-1 although the first line declares utf-8.
C6_Witness ==
    /\ epc = "done"
    /\ mode = AUTOMATIC
    /\ file.bytes = << "#", " ", "c", "o", "d", "i", "n", "g", ":", " ", "u", "t", "f", "-", "8", " " >> \o << "x", "\r", "\n" >> \o CodingLine \o << "\n" >>
    /\ eresult = LATIN1

\* C7 as claimed: in Python a line with a string literal right after a
\* block-opening colon counts as documentation, and a line with a string literal
\* after other code and no colon counts as string.
C7_StringByColon ==
    [][(pc = "count" /\ lexer = "Python" /\ ~ln.com) =>
          /\ (ln.strCtx = {"colon"} => Counted("d"))
          /\ (ln.strCtx = {"code"} => Counted("s"))]_vars

\* C7, amended: in Python a line whose strings all come right after a
\* block-opening colon counts as documentation, and one whose strings all come
\* after other code counts as string, when the line holds no code token and no
\* comment; with a code token on the line (the left side of an assignment) either
\* line counts as code.
C7_StringByColonUnlessCode ==
    [][(pc = "count" /\ lexer = "Python" /\ ~ln.com) =>
          /\ (ln.strCtx = {"colon"} /\ ~ln.word => Counted("d"))
          /\ (ln.strCtx = {"code"} /\ ~ln.word => Counted("s"))
          /\ (ln.strCtx \in {{"colon"}, {"code"}} /\ ln.word => Counted("c"))]_vars

\* A Python line of nothing but a string after a colon, yielded as documentation.
C7_Witness ==
    /\ pc = "count"
    /\ lexer = "Python"
    /\ ln.strCtx = {"colon"} /\ ~ln.word /\ ~ln.com
    /\ yielded = {"d"}

\* C8 as claimed: in Python every line whose only content besides whitespace is
\* pass counts as empty; in a language without that white word such a line, made
\* of tokens that are neither comment nor string, counts as code.
C8_LonePass ==
    [][pc = "count" =>
          /\ (lexer = "Python" /\ ln.pass = "pass" => Counted("e"))
          /\ (lexer # "Python" /\ ln.passCode = "pass" => Counted("c"))]_vars

\* C8, amended: a yielded line made of tokens that are neither comment nor
\* string, whose only content besides whitespace is pass, counts as empty in
\* Python and as code in a language without that white word.
C8_LonePassToken ==
    [][(pc = "count" /\ ln.passCode = "pass") =>
          IF lexer = "Python" THEN Counted("e") ELSE Counted("c")]_vars

\* A Python line of a lone pass, yielded without a mark.
C8_Witness ==
    /\ pc = "count"
    /\ lexer = "Python"
    /\ ln.passCode = "pass"
    /\ yielded = {}
    /\ EndsWithNewline(cur.text)

\* The last line holds a comment, a string or a code token.
LastLineHasMark == ln.com \/ ln.strCtx # {} \/ ln.word

\* C9 as claimed: when the tokens have ended _line_parts has yielded one set for
\* every "\n" of the lexed text, and one more whenever the text ends in a partial
\* line, whatever that line is made of.
C9_OnePerPhysicalLine ==
    pc = "return" => emitted = nl + (IF tail THEN 1 ELSE 0)

\* C9, amended: ... and one more whenever the text ends in a partial line that
\* holds a comment, a string or a code token; a partial last line of whitespace,
\* white characters and white code words alone is not yielded.
C9_OnePerMarkedLine ==
    pc = "return" => emitted = nl + (IF tail /\ LastLineHasMark THEN 1 ELSE 0)

\* The text ended in a partial line of code after a full line, and both were
\* yielded.
C9_Witness ==
    /\ pc = "return"
    /\ tail /\ ln.word
    /\ nl = 1
    /\ emitted = 2

\* The reclassifier of the design: eligible, or not.
RuleConverts(eligible, tok) == eligible /\ InString(tok.type)

RuleNext(eligible, tok) ==
    CASE RuleConverts(eligible, tok) -> eligible
      [] ~RuleConverts(eligible, tok) /\ tok.text = << ":" >> -> TRUE
      [] /\ ~RuleConverts(eligible, tok) /\ tok.text # << ":" >>
         /\ ~InComment(tok.type) /\ ~IsBlankText(tok.text) -> FALSE
      [] OTHER -> eligible

\* C10: _pythonized_comments starts eligible; a string seen while eligible
\* leaves as a comment and leaves it eligible; otherwise a token that is exactly
\* ":" makes it eligible, otherwise a token that is no comment and not blank
\* makes it not eligible, and any other token changes nothing; no text changes,
\* and no type but that of a string seen while eligible.
C10_TwoStateMachine ==
    [][/\ (pc = "read" /\ pc' = "pull" => is_after_colon')
       /\ (pc = "py" =>
              /\ cur'.text = cur.text
              /\ (IF RuleConverts(is_after_colon, cur)
                  THEN InComment(cur'.type) /\ ~InString(cur'.type)
                  ELSE cur'.type = cur.type)
              /\ is_after_colon' = RuleNext(is_after_colon, cur))]_vars

\* The second of two strings after a colon has left as a comment.
C10_Witness ==
    /\ pc = "parts"
    /\ lexer = "Python"
    /\ lastSig = "colon"
    /\ cur.type = TokenComment
    /\ line_marks = {"c", "d"}
    /\ is_after_colon

====
